---- MODULE Spec2Model ----
(***************************************************************************)
(* State-machine model of the fluent request builder (RequestHandler) and  *)
(* its logger (APILogger).  Objects that the code shares by reference      *)
(* (header maps, request bodies) live in heaps and are named by their      *)
(* index, so that aliasing between the caller, the builder and the logger  *)
(* is visible.  A dispatch is two steps: the part that runs up to the      *)
(* awaited HTTP call, and the part that runs once the call has settled.    *)
(*                                                                         *)
(* Spec        one test body that awaits each dispatch before its next call *)
(* OverlapSpec one test body that calls request methods without awaiting    *)
(* SuiteSpec   the tests of one worker, the custom matchers and the schema  *)
(*             validator                                                    *)
(* LoggerSpec  APILogger instances used side by side                        *)
(* SchemaSpec  the schema validator over a directory of two schema files    *)
(* AuthSpec    the authToken fixture of one worker: createToken, then the   *)
(*             tests and the builders the api fixture makes for them        *)
(***************************************************************************)
EXTENDS Naturals, Sequences, FiniteSets, TLC

VARIABLES baseUrl, defaultBaseUrl, apiPath, queryParams, apiHeaders, apiBody,
          defaultAuthToken, clearAuthFlag, hdrHeap, bodyHeap, recentLogs,
          pc, inflight, result, httpCalls, history, calls,
          tasks, loggers, apiLogger, running, verdict, recorded, schemas,
          context, authToken, createTokenCall

(* the state of the custom matchers, the loggers the tests make, and the    *)
(* stored schema files                                                      *)
suiteVars == <<loggers, apiLogger, running, verdict, recorded, schemas>>

(* the request context createToken makes, the position of the createToken   *)
(* call, and the value of the worker's authToken fixture                    *)
workerVars == <<context, authToken, createTokenCall>>

vars == <<baseUrl, defaultBaseUrl, apiPath, queryParams, apiHeaders, apiBody,
          defaultAuthToken, clearAuthFlag, hdrHeap, bodyHeap, recentLogs,
          pc, inflight, result, httpCalls, history, calls,
          tasks, loggers, apiLogger, running, verdict, recorded, schemas,
          context, authToken, createTokenCall>>

(* ---------------------------------------------------------------- bounds *)

(* the test body makes at most MaxCalls calls on the builder, counting the  *)
(* assignments it makes to objects it has handed to the builder           *)
MaxCalls == 3

(* one worker runs at most MaxTests tests, which make at most MaxLoggers    *)
(* loggers and record at most MaxEntries log entries between them           *)
(* at most MaxTasks request methods are called without being awaited *)
MaxTasks == 2

MaxTests == 2

MaxLoggers == 2

MaxEntries == 3

(* ------------------------------------------------------- values and sets *)

Undefined == "<undefined>"

ApiUrl == "https://conduit-api.bondaracademy.com/api"

AltUrl == "https://staging-api.example.com"

BadUrl == "staging-api"

UrlOverrides == {AltUrl, BadUrl}

AbsoluteUrls == {ApiUrl, AltUrl}

(* absolute URLs that name a host and no path *)
Origins == {AltUrl}

Paths == {"/articles"}

(* a params object: its entries in insertion order; values are numbers or strings *)
ParamMaps == {<< <<"limit", [num |-> 10]>>, <<"tag", [str |-> "a b"]>> >>}

AuthTokens == {"Token default"}

EmptyObject == [k \in {} |-> ""]

HeaderLiterals ==
    { [Authorization |-> ""], [Authorization |-> "Token custom"] }

CallerHeaderInit == [Custom |-> "value"]

BodyLiterals == {"user-d"}

CallerBodyInit == "article-1"

CallerBodyEdits == {"article-2"}

Methods == {"GET", "POST", "PUT", "DELETE"}

StatusCodes == {200, 422}

JsonText == "{\"articles\":[]}"

ResponseTexts == {JsonText, ""}

(* the reference passed where the code passes no object at all *)
NoObject == 0

(* heap slots of the objects the test code keeps in its own variables *)
CallerHeaders == 2

CallerBody == 2

(* ------------------------------------------------------------ JavaScript *)

Last(seq) == seq[Len(seq)]

(* truthiness of a string-or-undefined value *)
Truthy(v) == v # Undefined /\ v # ""

(* !flag for a boolean-or-undefined value; booleans are written "true" / "false" *)
Not(flag) == flag \in {Undefined, "false"}

JsOr(a, b) == IF Truthy(a) THEN a ELSE b

Nullish(a, b) == IF a = Undefined THEN b ELSE a

Prop(obj, k) == IF k \in DOMAIN obj THEN obj[k] ELSE Undefined

SetProp(obj, k, v) ==
    [x \in (DOMAIN obj) \cup {k} |-> IF x = k THEN v ELSE obj[x]]

JsString(v) ==
    IF "num" \in DOMAIN v
    THEN (IF v.num = 10 THEN "10" ELSE IF v.num = 0 THEN "0" ELSE "NaN")
    ELSE v.str

UrlEncode(s) == IF s = "a b" THEN "a+b" ELSE s

RECURSIVE SearchString(_)
SearchString(entries) ==
    IF entries = <<>> THEN ""
    ELSE LET e == Head(entries)
             pair == UrlEncode(e[1]) \o "=" \o UrlEncode(JsString(e[2]))
         IN IF Tail(entries) = <<>> THEN pair
            ELSE pair \o "&" \o SearchString(Tail(entries))

(* bodies of the login endpoint: a user with a token, a user without one,  *)
(* and an error report                                                      *)
LoginJson == "{\"user\":{\"token\":\"jwt\"}}"

NoTokenJson == "{\"user\":{}}"

ErrorsJson == "{\"errors\":{}}"

ParseJson(text) ==
    IF text = JsonText THEN [ok |-> TRUE, value |-> [articles |-> <<>>]]
    ELSE IF text = LoginJson THEN [ok |-> TRUE, value |-> [user |-> [token |-> "jwt"]]]
    ELSE IF text = NoTokenJson THEN [ok |-> TRUE, value |-> [user |-> [k \in {} |-> ""]]]
    ELSE IF text = ErrorsJson THEN [ok |-> TRUE, value |-> [errors |-> [k \in {} |-> ""]]]
    ELSE [ok |-> FALSE]

(* ------------------------------------------------------------- APILogger *)

(* a log entry keeps the headers and body objects it was given, not copies *)
RequestDetails(method, url, headers, body) ==
    IF body = NoObject
    THEN [type |-> "Request Details", method |-> method, url |-> url, headers |-> headers]
    ELSE [type |-> "Request Details", method |-> method, url |-> url, headers |-> headers,
          body |-> body]

(* variant of logRequest: the entry is put in front of the log (unshift) *)
logRequestUnshift(logs, method, url, headers, body) ==
    <<RequestDetails(method, url, headers, body)>> \o logs

logRequest(logs, method, url, headers, body) ==
    Append(logs, RequestDetails(method, url, headers, body))

ResponseDetails(statusCode, hasBody, body) ==
    IF hasBody
    THEN [type |-> "Response Details", statusCode |-> statusCode, body |-> body]
    ELSE [type |-> "Response Details", statusCode |-> statusCode]

(* variant of logResponse: the entry is put in front of the log (unshift) *)
logResponseUnshift(logs, statusCode, hasBody, body) ==
    <<ResponseDetails(statusCode, hasBody, body)>> \o logs

logResponse(logs, statusCode, hasBody, body) ==
    Append(logs, ResponseDetails(statusCode, hasBody, body))

(* JSON.stringify(log.data, null, 4) reads the logged objects when it is called *)
Stringify(entry, hh, bh) ==
    IF entry.type = "Request Details"
    THEN IF "body" \in DOMAIN entry
         THEN [method |-> entry.method, url |-> entry.url,
               headers |-> hh[entry.headers], body |-> bh[entry.body]]
         ELSE [method |-> entry.method, url |-> entry.url,
               headers |-> hh[entry.headers]]
    ELSE IF "body" \in DOMAIN entry
         THEN [statusCode |-> entry.statusCode, body |-> entry.body]
         ELSE [statusCode |-> entry.statusCode]

getRecentLogs(logs, hh, bh) ==
    [i \in 1..Len(logs) |->
        [title |-> "===" \o logs[i].type \o "===", json |-> Stringify(logs[i], hh, bh)]]

(* -------------------------------------------------------- RequestHandler *)

(* new URL(s) accepts s only when it is an absolute URL *)
UrlIsValid(s) ==
    \E b \in AbsoluteUrls : Len(s) >= Len(b) /\ SubSeq(s, 1, Len(b)) = b

(* url.toString(): a URL without a path is written with the path "/" *)
UrlToString(href, search) ==
    LET withPath == IF href \in Origins THEN href \o "/" ELSE href
    IN IF search = "" THEN withPath ELSE withPath \o "?" \o search

getUrl ==
    LET input == Nullish(baseUrl, defaultBaseUrl) \o apiPath
    IN IF ~UrlIsValid(input) THEN [ok |-> FALSE]
       ELSE [ok |-> TRUE, url |-> UrlToString(input, SearchString(queryParams))]

(* variant of getHeaders: no fallback to the default token *)
getHeadersNoFallback(hh, ref, flag, token) ==
    IF Not(flag)
    THEN [hh EXCEPT ![ref] = SetProp(@, "Authorization", Prop(@, "Authorization"))]
    ELSE hh

getHeaders(hh, ref, flag, token) ==
    IF Not(flag)
    THEN [hh EXCEPT ![ref] = SetProp(@, "Authorization", JsOr(Prop(@, "Authorization"), token))]
    ELSE hh

(* variant of statusCodeValidator: the two numbers change places in the message *)
statusCodeValidatorSwapped(actualStatus, expectStatus, logs, hh, bh) ==
    IF actualStatus # expectStatus
    THEN [throws |-> TRUE,
          message |-> [expected |-> actualStatus, actual |-> expectStatus,
                       activity |-> getRecentLogs(logs, hh, bh)]]
    ELSE [throws |-> FALSE]

(* variant of statusCodeValidator: any status of 400 or more is an error *)
statusCodeValidatorRejectsErrors(actualStatus, expectStatus, logs, hh, bh) ==
    IF actualStatus # expectStatus \/ actualStatus >= 400
    THEN [throws |-> TRUE,
          message |-> [expected |-> expectStatus, actual |-> actualStatus,
                       activity |-> getRecentLogs(logs, hh, bh)]]
    ELSE [throws |-> FALSE]

statusCodeValidator(actualStatus, expectStatus, logs, hh, bh) ==
    IF actualStatus # expectStatus
    THEN [throws |-> TRUE,
          message |-> [expected |-> expectStatus, actual |-> actualStatus,
                       activity |-> getRecentLogs(logs, hh, bh)]]
    ELSE [throws |-> FALSE]

(* variant of cleanupFields: the suppress-auth flag is not reset *)
cleanupFieldsKeepsFlag ==
    /\ bodyHeap' = Append(bodyHeap, "{}")
    /\ apiBody' = Len(bodyHeap) + 1
    /\ hdrHeap' = Append(hdrHeap, EmptyObject)
    /\ apiHeaders' = Len(hdrHeap) + 1
    /\ baseUrl' = Undefined
    /\ apiPath' = ""
    /\ queryParams' = <<>>
    /\ clearAuthFlag' = clearAuthFlag

(* variant of cleanupFields: the headers are not reset *)
cleanupFieldsKeepsHeaders ==
    /\ bodyHeap' = Append(bodyHeap, "{}")
    /\ apiBody' = Len(bodyHeap) + 1
    /\ hdrHeap' = hdrHeap
    /\ apiHeaders' = apiHeaders
    /\ baseUrl' = Undefined
    /\ apiPath' = ""
    /\ queryParams' = <<>>
    /\ clearAuthFlag' = "false"

(* variant of cleanupFields: the path is not reset *)
cleanupFieldsKeepsPath ==
    /\ bodyHeap' = Append(bodyHeap, "{}")
    /\ apiBody' = Len(bodyHeap) + 1
    /\ hdrHeap' = Append(hdrHeap, EmptyObject)
    /\ apiHeaders' = Len(hdrHeap) + 1
    /\ baseUrl' = Undefined
    /\ apiPath' = apiPath
    /\ queryParams' = <<>>
    /\ clearAuthFlag' = "false"

cleanupFields ==
    /\ bodyHeap' = Append(bodyHeap, "{}")
    /\ apiBody' = Len(bodyHeap) + 1
    /\ hdrHeap' = Append(hdrHeap, EmptyObject)
    /\ apiHeaders' = Len(hdrHeap) + 1
    /\ baseUrl' = Undefined
    /\ apiPath' = ""
    /\ queryParams' = <<>>
    /\ clearAuthFlag' = "false"

(* ----------------------------------------------------- schema validator *)

SchemaBasePath == "response-schemas"

DirNames == {"articles"}

FileNames == {"GET_articles"}

(* path.join(SCHEMA_BASE_PATH, dirName, `${fileName}_schema.json`) *)
SchemaPath(dirName, fileName) ==
    SchemaBasePath \o "/" \o dirName \o "/" \o fileName \o "_schema.json"

SchemaPaths == {SchemaPath(d, f) : d \in DirNames, f \in FileNames}

(* response payloads: objects whose values are arrays, numbers or strings *)
Payloads ==
    { EmptyObject,
      [articles |-> [arr |-> <<>>], articlesCount |-> [num |-> 10]],
      [articles |-> [arr |-> <<>>], articlesCount |-> [str |-> "10"]] }

(* the JSON type createSchema reports for a value *)
JsonType(v) ==
    IF "num" \in DOMAIN v THEN "integer"
    ELSE IF "str" \in DOMAIN v THEN "string"
    ELSE "array"

createSchemaFor(v) == [type |-> JsonType(v)]

(* createSchema(responseBody): every key is a property and is required *)
createSchema(responseBody) ==
    IF DOMAIN responseBody = {} THEN [type |-> "object"]
    ELSE [type |-> "object",
          properties |-> [k \in DOMAIN responseBody |-> createSchemaFor(responseBody[k])],
          required |-> DOMAIN responseBody]

(* the content of a schema file: none, a JSON schema, or text that is not JSON *)
NoFile == [exists |-> FALSE]

JsonFile(schema) == [exists |-> TRUE, json |-> schema]

BrokenFile == [exists |-> TRUE, text |-> "{"]

FileContents == {NoFile, BrokenFile} \cup {JsonFile(createSchema(p)) : p \in Payloads}

(* variant of generateNewSchema: a schema file that exists is kept *)
generateNewSchemaKeepsFile(store, responseBody, schemaPath) ==
    IF store[schemaPath].exists THEN store
    ELSE [store EXCEPT ![schemaPath] = JsonFile(createSchema(responseBody))]

(* generateNewSchema: mkdir, then writeFile over whatever is there *)
generateNewSchema(store, responseBody, schemaPath) ==
    [store EXCEPT ![schemaPath] = JsonFile(createSchema(responseBody))]

(* variant of loadSchema: a missing file is read as the schema that accepts all *)
loadSchemaDefaults(store, schemaPath) ==
    LET file == store[schemaPath]
    IN IF ~file.exists THEN [ok |-> TRUE, schema |-> [type |-> "object"]]
       ELSE IF "json" \notin DOMAIN file
       THEN [ok |-> FALSE,
             message |-> "Failed to read the schema file: Unexpected end of JSON input"]
       ELSE [ok |-> TRUE, schema |-> file.json]

(* loadSchema: readFile then JSON.parse; either failure is rethrown *)
loadSchema(store, schemaPath) ==
    LET file == store[schemaPath]
    IN IF ~file.exists
       THEN [ok |-> FALSE,
             message |-> "Failed to read the schema file: ENOENT: no such file or directory, open '"
                         \o schemaPath \o "'"]
       ELSE IF "json" \notin DOMAIN file
       THEN [ok |-> FALSE,
             message |-> "Failed to read the schema file: Unexpected end of JSON input"]
       ELSE [ok |-> TRUE, schema |-> file.json]

(* validate.errors of the compiled schema for this payload *)
SchemaErrors(schema, responseBody) ==
    LET required == IF "required" \in DOMAIN schema THEN schema.required ELSE {}
        declared == IF "properties" \in DOMAIN schema THEN DOMAIN schema.properties ELSE {}
    IN {[keyword |-> "required", property |-> k] : k \in required \ DOMAIN responseBody}
       \cup {[keyword |-> "type", property |-> k] :
                k \in {x \in declared \cap DOMAIN responseBody :
                          schema.properties[x].type # JsonType(responseBody[x])}}

(* variant of validateSchema: the schema is generated whatever the flag is *)
validateSchemaAlwaysGenerates(store, dirName, fileName, responseBody, createSchemaFlag) ==
    LET schemaPath == SchemaPath(dirName, fileName)
        written == generateNewSchema(store, responseBody, schemaPath)
        loaded == loadSchema(written, schemaPath)
    IN IF ~loaded.ok
       THEN [store |-> written, kind |-> "loadError", message |-> loaded.message,
             validated |-> FALSE]
       ELSE LET errors == SchemaErrors(loaded.schema, responseBody)
            IN IF errors # {}
               THEN [store |-> written, kind |-> "schemaMismatch",
                     message |-> [file |-> fileName \o "_schema.json", errors |-> errors,
                                  actual |-> responseBody],
                     validated |-> TRUE]
               ELSE [store |-> written, kind |-> "valid", validated |-> TRUE]

(* validateSchema(dirName, fileName, responseBody, createSchemaFlag): what it *)
(* leaves in the schema directory and how it ends                           *)
validateSchema(store, dirName, fileName, responseBody, createSchemaFlag) ==
    LET schemaPath == SchemaPath(dirName, fileName)
        written == IF createSchemaFlag
                   THEN generateNewSchema(store, responseBody, schemaPath)
                   ELSE store
        loaded == loadSchema(written, schemaPath)
    IN IF ~loaded.ok
       THEN [store |-> written, kind |-> "loadError", message |-> loaded.message,
             validated |-> FALSE]
       ELSE LET errors == SchemaErrors(loaded.schema, responseBody)
            IN IF errors # {}
               THEN [store |-> written, kind |-> "schemaMismatch",
                     message |-> [file |-> fileName \o "_schema.json", errors |-> errors,
                                  actual |-> responseBody],
                     validated |-> TRUE]
               ELSE [store |-> written, kind |-> "valid", validated |-> TRUE]

(* -------------------------------------------------------- custom matchers *)

(* values handed to the matchers: numbers and undefined *)
JsValues == {[num |-> 1], [num |-> 2], [undef |-> TRUE]}

IsNumber(v) == "num" \in DOMAIN v

(* baseExpect(received).toEqual(expected), or its .not form: does it throw *)
toEqualThrows(received, expected, isNot) ==
    IF isNot THEN received = expected ELSE received # expected

(* baseExpect(received).toBeLessThanOrEqual(expected), or its .not form:    *)
(* values that are not numbers are refused in both forms                    *)
toBeLessThanOrEqualThrows(received, expected, isNot) ==
    IF ~(IsNumber(received) /\ IsNumber(expected)) THEN TRUE
    ELSE IF isNot THEN received.num <= expected.num
    ELSE ~(received.num <= expected.num)

(* the module variable apiLogger holds no logger until a fixture sets one *)
NoLogger == 0

(* apiLogger.getRecentLogs() as the matchers call it *)
MatcherLogs(all, logger, hh, bh) ==
    IF logger = NoLogger THEN [ok |-> FALSE]
    ELSE [ok |-> TRUE, logs |-> getRecentLogs(all[logger], hh, bh)]

TypeErrorThrown == [threw |-> "TypeError: Cannot read properties of undefined"]

(* the body shared by shouldEqual and shouldBeLessThanOrEqual: the baseline *)
(* assertion in its plain form decides pass; the logs are read when it      *)
(* throws and when the matcher is used with .not                            *)
ComparisonMatcher(name, baselineThrows, received, expected, isNot, all, logger, hh, bh) ==
    LET pass == ~baselineThrows
        recent == MatcherLogs(all, logger, hh, bh)
    IN IF pass /\ ~isNot
       THEN [pass |-> TRUE,
             message |-> [hint |-> name, expected |-> expected, received |-> received,
                          isNot |-> isNot, activity |-> <<>>]]
       ELSE IF ~recent.ok THEN TypeErrorThrown
       ELSE [pass |-> pass,
             message |-> [hint |-> name, expected |-> expected, received |-> received,
                          isNot |-> isNot, activity |-> recent.logs]]

shouldEqual(received, expected, isNot, all, logger, hh, bh) ==
    ComparisonMatcher("shouldEqual", toEqualThrows(received, expected, FALSE),
                      received, expected, isNot, all, logger, hh, bh)

shouldBeLessThanOrEqual(received, expected, isNot, all, logger, hh, bh) ==
    ComparisonMatcher("shouldBeLessThanOrEqual",
                      toBeLessThanOrEqualThrows(received, expected, FALSE),
                      received, expected, isNot, all, logger, hh, bh)

(* shouldMatchSchema: validateSchema decides pass; the logs are read only   *)
(* when it throws                                                           *)
shouldMatchSchema(validation, all, logger, hh, bh) ==
    LET recent == MatcherLogs(all, logger, hh, bh)
    IN IF validation.kind = "valid"
       THEN [pass |-> TRUE, message |-> [text |-> "Schema validation passed"]]
       ELSE IF ~recent.ok THEN TypeErrorThrown
       ELSE [pass |-> FALSE,
             message |-> [text |-> validation.message, activity |-> recent.logs]]

(* expect(...).matcher(...) fails when the matcher throws and when pass     *)
(* equals isNot                                                             *)
AssertionFails(outcome, isNot) ==
    IF "threw" \in DOMAIN outcome THEN TRUE ELSE outcome.pass = isNot

(* inflight describes the dispatch in progress or just finished: its method, *)
(* the expected status and, once settled, what the HTTP client produced.    *)
(* result is what the call just made gave back to the test body.            *)
Idle == [method |-> "none"]

NoResult == [kind |-> "none"]

ReturnsThis == [kind |-> "this"]

BuilderInit ==
    /\ defaultBaseUrl = ApiUrl
    /\ defaultAuthToken \in AuthTokens
    /\ baseUrl = Undefined
    /\ apiPath = ""
    /\ queryParams = <<>>
    /\ hdrHeap = <<EmptyObject, CallerHeaderInit>>
    /\ apiHeaders = 1
    /\ bodyHeap = <<"{}", CallerBodyInit>>
    /\ apiBody = 1
    /\ clearAuthFlag = Undefined
    /\ recentLogs = <<>>
    /\ pc = "configuring"
    /\ inflight = Idle
    /\ result = NoResult
    /\ httpCalls = <<>>
    /\ history = <<>>
    /\ calls = 0

(* In SuiteSpec the tests of one worker process run one after the other.    *)
(* loggers holds the recentLogs array of every APILogger made so far,       *)
(* apiLogger is the module variable of the custom matchers, running tells   *)
(* which test is running and which loggers it made, verdict is the outcome  *)
(* of the assertion the test body has just made (none when its last call    *)
(* was something else) and schemas is the schema directory.                 *)
(* recorded notes every logRequest / logResponse call with its instance.    *)

NoTest == [n |-> 0, own |-> {}]

NoVerdict == [matcher |-> "none"]

SuiteIdle ==
    /\ loggers = <<>>
    /\ apiLogger = NoLogger
    /\ running = NoTest
    /\ verdict = NoVerdict
    /\ recorded = <<>>
    /\ schemas = [p \in SchemaPaths |-> NoFile]

(* In AuthSpec context tells whether createToken has made its request      *)
(* context and how often it has called dispose() on it, createTokenCall     *)
(* where the one createToken call of the worker stands and how it ended,    *)
(* and authToken is the value of the worker fixture once it is set.         *)

NoContext == [created |-> FALSE, disposeCalls |-> 0]

NotCalled == [at |-> "idle"]

WorkerIdle ==
    /\ context = NoContext
    /\ authToken = Undefined
    /\ createTokenCall = NotCalled

Init ==
    /\ BuilderInit
    /\ tasks = <<>>
    /\ SuiteIdle
    /\ WorkerIdle

(* ---------------------------------------------------------------- setters *)

CanConfigure ==
    /\ pc = "configuring"
    /\ calls < MaxCalls

(* every setter ends with "return this" *)
Chained ==
    /\ calls' = calls + 1
    /\ inflight' = Idle
    /\ result' = ReturnsThis
    /\ UNCHANGED <<defaultBaseUrl, defaultAuthToken, recentLogs, pc, httpCalls, history>>
    /\ UNCHANGED <<tasks, suiteVars, workerVars>>

url(u) ==
    /\ CanConfigure
    /\ baseUrl' = u
    /\ Chained
    /\ UNCHANGED <<apiPath, queryParams, apiHeaders, apiBody, clearAuthFlag,
                   hdrHeap, bodyHeap>>

path(p) ==
    /\ CanConfigure
    /\ apiPath' = p
    /\ Chained
    /\ UNCHANGED <<baseUrl, queryParams, apiHeaders, apiBody, clearAuthFlag,
                   hdrHeap, bodyHeap>>

params(q) ==
    /\ CanConfigure
    /\ queryParams' = q
    /\ Chained
    /\ UNCHANGED <<baseUrl, apiPath, apiHeaders, apiBody, clearAuthFlag,
                   hdrHeap, bodyHeap>>

(* variant of headers({...}): the argument is merged into the headers set   *)
(* before                                                                   *)
headersMerged(h) ==
    /\ CanConfigure
    /\ hdrHeap' = Append(hdrHeap,
          [k \in (DOMAIN hdrHeap[apiHeaders]) \cup (DOMAIN h) |->
              IF k \in DOMAIN h THEN h[k] ELSE hdrHeap[apiHeaders][k]])
    /\ apiHeaders' = Len(hdrHeap) + 1
    /\ Chained
    /\ UNCHANGED <<baseUrl, apiPath, queryParams, apiBody, clearAuthFlag, bodyHeap>>

(* headers({...}): the argument is a new object that only the builder holds *)
headers(h) ==
    /\ CanConfigure
    /\ hdrHeap' = Append(hdrHeap, h)
    /\ apiHeaders' = Len(hdrHeap) + 1
    /\ Chained
    /\ UNCHANGED <<baseUrl, apiPath, queryParams, apiBody, clearAuthFlag, bodyHeap>>

(* headers(obj): the argument is an object the test body keeps and may reuse *)
headersShared ==
    /\ CanConfigure
    /\ apiHeaders' = CallerHeaders
    /\ Chained
    /\ UNCHANGED <<baseUrl, apiPath, queryParams, apiBody, clearAuthFlag,
                   hdrHeap, bodyHeap>>

(* body({...}): the argument is a new object that only the builder holds *)
body(b) ==
    /\ CanConfigure
    /\ bodyHeap' = Append(bodyHeap, b)
    /\ apiBody' = Len(bodyHeap) + 1
    /\ Chained
    /\ UNCHANGED <<baseUrl, apiPath, queryParams, apiHeaders, clearAuthFlag, hdrHeap>>

(* body(obj): the argument is an object the test body keeps and may reuse *)
bodyShared ==
    /\ CanConfigure
    /\ apiBody' = CallerBody
    /\ Chained
    /\ UNCHANGED <<baseUrl, apiPath, queryParams, apiHeaders, clearAuthFlag,
                   hdrHeap, bodyHeap>>

(* variant of clearAuth: the path is cleared as well *)
clearAuthClearsPath ==
    /\ CanConfigure
    /\ clearAuthFlag' = "true"
    /\ apiPath' = ""
    /\ Chained
    /\ UNCHANGED <<baseUrl, queryParams, apiHeaders, apiBody, hdrHeap, bodyHeap>>

clearAuth ==
    /\ CanConfigure
    /\ clearAuthFlag' = "true"
    /\ Chained
    /\ UNCHANGED <<baseUrl, apiPath, queryParams, apiHeaders, apiBody, hdrHeap, bodyHeap>>

(* the test body assigns to a property of the body object it keeps, as in   *)
(* articleRequest.article.title = articleTitleModified                     *)
CallerEditsBody(b) ==
    /\ pc = "configuring"
    /\ calls < MaxCalls
    /\ bodyHeap[CallerBody] # b
    /\ bodyHeap' = [bodyHeap EXCEPT ![CallerBody] = b]
    /\ calls' = calls + 1
    /\ inflight' = Idle
    /\ result' = NoResult
    /\ UNCHANGED <<baseUrl, defaultBaseUrl, apiPath, queryParams, apiHeaders, apiBody,
                   defaultAuthToken, clearAuthFlag, hdrHeap, recentLogs,
                   pc, httpCalls, history, tasks, suiteVars, workerVars>>

(* ------------------------------------------------------------- dispatches *)

(* the synchronous part of a request method: getUrl, logRequest, and the   *)
(* call of this.request.<method>, up to the point where it is awaited      *)
Send(method, statusCode, withBody) ==
    /\ pc = "configuring"
    /\ calls < MaxCalls
    /\ calls' = calls + 1
    /\ UNCHANGED <<tasks, suiteVars, workerVars>>
    /\ LET target == getUrl
       IN IF ~target.ok
          THEN /\ result' = [kind |-> "urlError"]
               /\ inflight' = [method |-> method, expected |-> statusCode,
                               settled |-> "getUrl threw"]
               /\ history' = Append(history,
                     [method |-> method, stage |-> "getUrl", status |-> 0])
               /\ UNCHANGED <<baseUrl, defaultBaseUrl, apiPath, queryParams, apiHeaders,
                              apiBody, defaultAuthToken, clearAuthFlag, hdrHeap, bodyHeap,
                              recentLogs, pc, httpCalls>>
          ELSE LET logged == getHeaders(hdrHeap, apiHeaders, clearAuthFlag, defaultAuthToken)
                   passed == getHeaders(logged, apiHeaders, clearAuthFlag, defaultAuthToken)
               IN /\ recentLogs' = logRequest(recentLogs, method, target.url, apiHeaders,
                                              IF withBody THEN apiBody ELSE NoObject)
                  /\ hdrHeap' = passed
                  /\ httpCalls' = Append(httpCalls,
                        IF withBody
                        THEN [method |-> method, url |-> target.url,
                              headers |-> passed[apiHeaders], data |-> bodyHeap[apiBody]]
                        ELSE [method |-> method, url |-> target.url,
                              headers |-> passed[apiHeaders]])
                  /\ pc' = "dispatching"
                  /\ inflight' = [method |-> method, expected |-> statusCode,
                                  settled |-> "no"]
                  /\ result' = NoResult
                  /\ UNCHANGED <<baseUrl, defaultBaseUrl, apiPath, queryParams, apiHeaders,
                                 apiBody, defaultAuthToken, clearAuthFlag, bodyHeap,
                                 history>>

getRequest(statusCode) == Send("GET", statusCode, FALSE)

postRequest(statusCode) == Send("POST", statusCode, TRUE)

putRequest(statusCode) == Send("PUT", statusCode, TRUE)

deleteRequest(statusCode) == Send("DELETE", statusCode, FALSE)

(* variant of the step below: the HTTP call is made a second time before    *)
(* the error is passed on                                                   *)
RequestRejectsAfterRetry ==
    /\ pc = "dispatching"
    /\ pc' = "configuring"
    /\ inflight' = [inflight EXCEPT !.settled = "rejected"]
    /\ result' = [kind |-> "transportError"]
    /\ history' = Append(history,
          [method |-> inflight.method, stage |-> "request", status |-> 0])
    /\ httpCalls' = Append(httpCalls, Last(httpCalls))
    /\ UNCHANGED <<baseUrl, defaultBaseUrl, apiPath, queryParams, apiHeaders, apiBody,
                   defaultAuthToken, clearAuthFlag, hdrHeap, bodyHeap, recentLogs,
                   calls, tasks, suiteVars, workerVars>>

(* the awaited HTTP call rejects: nothing after the await runs *)
RequestRejects ==
    /\ pc = "dispatching"
    /\ pc' = "configuring"
    /\ inflight' = [inflight EXCEPT !.settled = "rejected"]
    /\ result' = [kind |-> "transportError"]
    /\ history' = Append(history,
          [method |-> inflight.method, stage |-> "request", status |-> 0])
    /\ UNCHANGED <<baseUrl, defaultBaseUrl, apiPath, queryParams, apiHeaders, apiBody,
                   defaultAuthToken, clearAuthFlag, hdrHeap, bodyHeap, recentLogs,
                   httpCalls, calls, tasks, suiteVars, workerVars>>

(* what a request method does after validation: throw or return;           *)
(* jsonCalls counts the calls of response.json() the method made           *)
Outcome(check, hasValue, value, jsonCalls) ==
    IF check.throws
    THEN [kind |-> "statusMismatch", message |-> check.message, jsonCalls |-> jsonCalls]
    ELSE IF hasValue THEN [kind |-> "returned", value |-> value, jsonCalls |-> jsonCalls]
    ELSE [kind |-> "returned", jsonCalls |-> jsonCalls]

(* history notes how far each dispatch got: "getUrl", "request", "json" name *)
(* the call that threw, "validated" means statusCodeValidator was reached    *)
Finish(stage, actualStatus, text) ==
    /\ pc' = "configuring"
    /\ inflight' = [method |-> inflight.method, expected |-> inflight.expected,
                    settled |-> "response", status |-> actualStatus, text |-> text]
    /\ history' = Append(history,
          [method |-> inflight.method, stage |-> stage, status |-> actualStatus])
    /\ UNCHANGED <<defaultBaseUrl, defaultAuthToken, httpCalls, calls, tasks, suiteVars, workerVars>>

(* postRequest / putRequest after the await: a failed parse yields {} *)
WriteResumes(method, actualStatus, text) ==
    /\ pc = "dispatching"
    /\ inflight.method = method
    /\ cleanupFields
    /\ LET parsed == ParseJson(text)
           responseJSON == IF parsed.ok THEN parsed.value ELSE EmptyObject
       IN /\ recentLogs' = logResponse(recentLogs, actualStatus, TRUE, responseJSON)
          /\ result' = Outcome(statusCodeValidator(actualStatus, inflight.expected,
                                   recentLogs', hdrHeap', bodyHeap'),
                               TRUE, responseJSON, 1)
          /\ Finish("validated", actualStatus, text)

postRequestResumes(actualStatus, text) == WriteResumes("POST", actualStatus, text)

putRequestResumes(actualStatus, text) == WriteResumes("PUT", actualStatus, text)

(* variant of getRequest after the await: response.json() guarded as in postRequest *)
getRequestResumesGuarded(actualStatus, text) == WriteResumes("GET", actualStatus, text)

(* getRequest after the await: response.json() is not guarded *)
getRequestResumes(actualStatus, text) ==
    /\ pc = "dispatching"
    /\ inflight.method = "GET"
    /\ cleanupFields
    /\ LET responseJSON == ParseJson(text)
       IN IF ~responseJSON.ok
          THEN /\ recentLogs' = recentLogs
               /\ result' = [kind |-> "parseError", jsonCalls |-> 1]
               /\ Finish("json", actualStatus, text)
          ELSE /\ recentLogs' = logResponse(recentLogs, actualStatus, TRUE, responseJSON.value)
               /\ result' = Outcome(statusCodeValidator(actualStatus, inflight.expected,
                                        recentLogs', hdrHeap', bodyHeap'),
                                    TRUE, responseJSON.value, 1)
               /\ Finish("validated", actualStatus, text)

(* deleteRequest after the await: the body is not read *)
deleteRequestResumes(actualStatus, text) ==
    /\ pc = "dispatching"
    /\ inflight.method = "DELETE"
    /\ cleanupFields
    /\ recentLogs' = logResponse(recentLogs, actualStatus, FALSE, EmptyObject)
    /\ result' = Outcome(statusCodeValidator(actualStatus, inflight.expected,
                             recentLogs', hdrHeap', bodyHeap'),
                         FALSE, EmptyObject, 0)
    /\ Finish("validated", actualStatus, text)

(* ------------------------------------------------------------------ Next *)

Next ==
    \/ \E u \in UrlOverrides : url(u)
    \/ \E p \in Paths : path(p)
    \/ \E q \in ParamMaps : params(q)
    \/ \E h \in HeaderLiterals : headers(h)
    \/ headersShared
    \/ \E b \in BodyLiterals : body(b)
    \/ bodyShared
    \/ clearAuth
    \/ \E b \in CallerBodyEdits : CallerEditsBody(b)
    \/ \E c \in StatusCodes : getRequest(c)
    \/ \E c \in StatusCodes : postRequest(c)
    \/ \E c \in StatusCodes : putRequest(c)
    \/ \E c \in StatusCodes : deleteRequest(c)
    \/ RequestRejects
    \/ \E c \in StatusCodes, t \in ResponseTexts : getRequestResumes(c, t)
    \/ \E c \in StatusCodes, t \in ResponseTexts : postRequestResumes(c, t)
    \/ \E c \in StatusCodes, t \in ResponseTexts : putRequestResumes(c, t)
    \/ \E c \in StatusCodes, t \in ResponseTexts : deleteRequestResumes(c, t)

Spec == Init /\ [][Next]_vars

(* ------------------------------------------- dispatches that are not awaited *)

(* In OverlapSpec the test body does not await a dispatch before it makes   *)
(* its next call on the same builder.  tasks holds one record per request   *)
(* method called: it is suspended at the HTTP call ("request"), at          *)
(* response.json() ("json"), or has ended.  A suspended method resumes      *)
(* whenever the test body awaits anything.                                  *)

Pending == [kind |-> "promise"]

Started(task) ==
    /\ calls < MaxCalls
    /\ Len(tasks) < MaxTasks
    /\ calls' = calls + 1
    /\ tasks' = Append(tasks, task)
    /\ inflight' = Idle
    /\ result' = Pending
    /\ UNCHANGED <<defaultBaseUrl, defaultAuthToken, pc, history, suiteVars, workerVars>>

(* a request method called while others may be suspended: it runs up to its *)
(* first await                                                              *)
SendOverlapped(method, statusCode, withBody) ==
    /\ pc = "configuring"
    /\ LET target == getUrl
       IN IF ~target.ok
          THEN /\ Started([method |-> method, expected |-> statusCode, stage |-> "getUrl threw"])
               /\ UNCHANGED <<baseUrl, apiPath, queryParams, apiHeaders, apiBody,
                              clearAuthFlag, hdrHeap, bodyHeap, recentLogs, httpCalls>>
          ELSE LET passed == getHeaders(getHeaders(hdrHeap, apiHeaders, clearAuthFlag,
                                                   defaultAuthToken),
                                        apiHeaders, clearAuthFlag, defaultAuthToken)
               IN /\ recentLogs' = logRequest(recentLogs, method, target.url, apiHeaders,
                                              IF withBody THEN apiBody ELSE NoObject)
                  /\ hdrHeap' = passed
                  /\ httpCalls' = Append(httpCalls,
                        IF withBody
                        THEN [method |-> method, url |-> target.url,
                              headers |-> passed[apiHeaders], data |-> bodyHeap[apiBody]]
                        ELSE [method |-> method, url |-> target.url,
                              headers |-> passed[apiHeaders]])
                  /\ Started([method |-> method, expected |-> statusCode, stage |-> "request"])
                  /\ UNCHANGED <<baseUrl, apiPath, queryParams, apiHeaders, apiBody,
                                 clearAuthFlag, bodyHeap>>

Ended(i, task, stage, status) ==
    /\ tasks' = [tasks EXCEPT ![i] = task]
    /\ history' = Append(history, [method |-> tasks[i].method, stage |-> stage,
                                   status |-> status])
    /\ UNCHANGED <<defaultBaseUrl, defaultAuthToken, pc, inflight, result, httpCalls,
                   calls, suiteVars, workerVars>>

(* the HTTP call of task i rejects: its method ends there *)
TaskRejects(i) ==
    /\ tasks[i].stage = "request"
    /\ Ended(i, [tasks[i] EXCEPT !.stage = "rejected"], "request", 0)
    /\ UNCHANGED <<baseUrl, apiPath, queryParams, apiHeaders, apiBody, clearAuthFlag,
                   hdrHeap, bodyHeap, recentLogs>>

(* variant of the step below: the fields are left as they are when the HTTP *)
(* call resolves                                                            *)
TaskRespondsKeepsFields(i, actualStatus, text) ==
    /\ tasks[i].stage = "request"
    /\ UNCHANGED <<baseUrl, apiPath, queryParams, apiHeaders, apiBody, clearAuthFlag,
                   hdrHeap, bodyHeap>>
    /\ IF tasks[i].method = "DELETE"
       THEN /\ recentLogs' = logResponse(recentLogs, actualStatus, FALSE, EmptyObject)
            /\ Ended(i, [method |-> "DELETE", expected |-> tasks[i].expected,
                         stage |-> "ended", status |-> actualStatus,
                         outcome |-> Outcome(statusCodeValidator(actualStatus,
                                                 tasks[i].expected, recentLogs',
                                                 hdrHeap', bodyHeap'),
                                             FALSE, EmptyObject, 0)],
                     "validated", actualStatus)
       ELSE /\ recentLogs' = recentLogs
            /\ tasks' = [tasks EXCEPT ![i] = [method |-> tasks[i].method,
                                              expected |-> tasks[i].expected,
                                              stage |-> "json", status |-> actualStatus,
                                              text |-> text]]
            /\ UNCHANGED <<defaultBaseUrl, defaultAuthToken, pc, inflight, result,
                           httpCalls, history, calls, suiteVars, workerVars>>

(* the HTTP call of task i resolves: cleanupFields runs; deleteRequest goes *)
(* on to log and validate, the others suspend again at response.json()      *)
TaskResponds(i, actualStatus, text) ==
    /\ tasks[i].stage = "request"
    /\ cleanupFields
    /\ IF tasks[i].method = "DELETE"
       THEN /\ recentLogs' = logResponse(recentLogs, actualStatus, FALSE, EmptyObject)
            /\ Ended(i, [method |-> "DELETE", expected |-> tasks[i].expected,
                         stage |-> "ended", status |-> actualStatus,
                         outcome |-> Outcome(statusCodeValidator(actualStatus,
                                                 tasks[i].expected, recentLogs',
                                                 hdrHeap', bodyHeap'),
                                             FALSE, EmptyObject, 0)],
                     "validated", actualStatus)
       ELSE /\ recentLogs' = recentLogs
            /\ tasks' = [tasks EXCEPT ![i] = [method |-> tasks[i].method,
                                              expected |-> tasks[i].expected,
                                              stage |-> "json", status |-> actualStatus,
                                              text |-> text]]
            /\ UNCHANGED <<defaultBaseUrl, defaultAuthToken, pc, inflight, result,
                           httpCalls, history, calls, suiteVars, workerVars>>

(* response.json() of task i settles: the response is logged and validated, *)
(* or getRequest throws the parse error                                     *)
TaskParses(i) ==
    /\ tasks[i].stage = "json"
    /\ LET task == tasks[i]
           parsed == ParseJson(task.text)
           responseJSON == IF parsed.ok THEN parsed.value ELSE EmptyObject
       IN IF task.method = "GET" /\ ~parsed.ok
          THEN /\ recentLogs' = recentLogs
               /\ Ended(i, [method |-> task.method, expected |-> task.expected,
                            stage |-> "ended", status |-> task.status,
                            outcome |-> [kind |-> "parseError", jsonCalls |-> 1]],
                        "json", task.status)
          ELSE /\ recentLogs' = logResponse(recentLogs, task.status, TRUE, responseJSON)
               /\ Ended(i, [method |-> task.method, expected |-> task.expected,
                            stage |-> "ended", status |-> task.status,
                            outcome |-> Outcome(statusCodeValidator(task.status,
                                                    task.expected, recentLogs',
                                                    hdrHeap, bodyHeap),
                                                TRUE, responseJSON, 1)],
                        "validated", task.status)
    /\ UNCHANGED <<baseUrl, apiPath, queryParams, apiHeaders, apiBody, clearAuthFlag,
                   hdrHeap, bodyHeap>>

OverlapNext ==
    \/ \E u \in UrlOverrides : url(u)
    \/ \E p \in Paths : path(p)
    \/ \E q \in ParamMaps : params(q)
    \/ \E h \in HeaderLiterals : headers(h)
    \/ \E b \in BodyLiterals : body(b)
    \/ clearAuth
    \/ \E m \in {"POST", "DELETE"} : SendOverlapped(m, 200, m \in {"POST", "PUT"})
    \/ \E i \in 1..Len(tasks) : TaskRejects(i)
    \/ \E i \in 1..Len(tasks), c \in StatusCodes : TaskResponds(i, c, JsonText)
    \/ \E i \in 1..Len(tasks) : TaskParses(i)

OverlapSpec == Init /\ [][OverlapNext]_vars

(* ------------------------------------------------- tests of one worker *)

SuiteInit ==
    /\ BuilderInit
    /\ tasks = <<>>
    /\ loggers = <<>>
    /\ apiLogger = NoLogger
    /\ running = NoTest
    /\ verdict = NoVerdict
    /\ recorded = <<>>
    /\ schemas \in [SchemaPaths -> FileContents]
    /\ WorkerIdle

builderVars == <<baseUrl, defaultBaseUrl, apiPath, queryParams, apiHeaders, apiBody,
                 defaultAuthToken, clearAuthFlag, hdrHeap, bodyHeap, recentLogs,
                 pc, inflight, result, httpCalls, history, calls>>

(* variant of the recentLogs field: one array shared by every instance *)
pushStatic(all, logger, entry) == [i \in DOMAIN all |-> Append(all[i], entry)]

(* this.recentLogs.push(entry) on one instance *)
push(all, logger, entry) == [all EXCEPT ![logger] = Append(@, entry)]

(* setCustomExpectLogger(logger) *)
setCustomExpectLogger(logger) == logger

(* a test that asks for the api fixture starts: the fixture makes a logger *)
(* and hands it to the custom matchers                                      *)
api ==
    /\ running.n < MaxTests
    /\ Len(loggers) < MaxLoggers
    /\ loggers' = Append(loggers, <<>>)
    /\ apiLogger' = setCustomExpectLogger(Len(loggers) + 1)
    /\ running' = [n |-> running.n + 1, own |-> {Len(loggers) + 1}]
    /\ verdict' = NoVerdict
    /\ UNCHANGED <<recorded, schemas, tasks, builderVars, workerVars>>

(* a test that does not ask for the api fixture starts *)
TestWithoutApi ==
    /\ running.n < MaxTests
    /\ running' = [n |-> running.n + 1, own |-> {}]
    /\ verdict' = NoVerdict
    /\ UNCHANGED <<loggers, apiLogger, recorded, schemas, tasks, builderVars, workerVars>>

(* new APILogger() in a test body *)
NewAPILogger ==
    /\ running.n > 0
    /\ Len(loggers) < MaxLoggers
    /\ loggers' = Append(loggers, <<>>)
    /\ running' = [running EXCEPT !.own = @ \cup {Len(loggers) + 1}]
    /\ verdict' = NoVerdict
    /\ UNCHANGED <<apiLogger, recorded, schemas, tasks, builderVars, workerVars>>

Recorded == Len(recorded)

LogOn(logger, entry) ==
    /\ Recorded < MaxEntries
    /\ loggers' = push(loggers, logger, entry)
    /\ recorded' = Append(recorded, [on |-> logger, entry |-> entry])
    /\ verdict' = NoVerdict
    /\ UNCHANGED <<apiLogger, running, schemas, tasks, builderVars, workerVars>>

(* logger.logRequest(...) *)
LoggerLogRequest(logger, method) ==
    LogOn(logger, RequestDetails(method, ApiUrl \o "/articles", CallerHeaders, NoObject))

(* logger.logResponse(...) *)
LoggerLogResponse(logger, statusCode) ==
    LogOn(logger, ResponseDetails(statusCode, FALSE, EmptyObject))

Asserted(matcher, isNot, outcome, extra) ==
    /\ running.n > 0
    /\ verdict' = [matcher |-> matcher, test |-> running.n, isNot |-> isNot,
                   outcome |-> outcome, failed |-> AssertionFails(outcome, isNot),
                   about |-> extra]
    /\ UNCHANGED <<loggers, apiLogger, running, recorded, tasks, builderVars, workerVars>>

(* expect(received).shouldEqual(expected) and its .not form *)
ExpectShouldEqual(received, expected, isNot) ==
    /\ Asserted("shouldEqual", isNot,
                shouldEqual(received, expected, isNot, loggers, apiLogger, hdrHeap, bodyHeap),
                [received |-> received, expected |-> expected])
    /\ UNCHANGED schemas

(* expect(received).shouldBeLessThanOrEqual(expected) and its .not form *)
ExpectShouldBeLessThanOrEqual(received, expected, isNot) ==
    /\ Asserted("shouldBeLessThanOrEqual", isNot,
                shouldBeLessThanOrEqual(received, expected, isNot, loggers, apiLogger,
                                        hdrHeap, bodyHeap),
                [received |-> received, expected |-> expected])
    /\ UNCHANGED schemas

(* await expect(received).shouldMatchSchema(dirName, fileName, flag) and    *)
(* its .not form                                                            *)
ExpectShouldMatchSchema(received, dirName, fileName, createSchemaFlag, isNot) ==
    LET validation == validateSchema(schemas, dirName, fileName, received, createSchemaFlag)
    IN /\ Asserted("shouldMatchSchema", isNot,
                   shouldMatchSchema(validation, loggers, apiLogger, hdrHeap, bodyHeap),
                   [received |-> received, path |-> SchemaPath(dirName, fileName),
                    generate |-> createSchemaFlag, before |-> schemas[SchemaPath(dirName, fileName)],
                    ended |-> validation.kind, validated |-> validation.validated,
                    thrown |-> IF validation.kind = "valid" THEN "" ELSE validation.message])
       /\ schemas' = validation.store

(* the builder of the running test logs a request and then its response;   *)
(* it holds the logger its fixture made                                     *)
BuilderLogs(method, statusCode) ==
    \E logger \in running.own :
        IF loggers[logger] = <<>> \/ Last(loggers[logger]).type = "Response Details"
        THEN LoggerLogRequest(logger, method)
        ELSE LoggerLogResponse(logger, statusCode)

SuiteNext ==
    \/ api
    \/ TestWithoutApi
    \/ \E m \in {"GET", "POST"}, c \in StatusCodes : BuilderLogs(m, c)
    \/ \E r \in JsValues, e \in JsValues, n \in BOOLEAN : ExpectShouldEqual(r, e, n)
    \/ \E r \in JsValues, e \in JsValues, n \in BOOLEAN : ExpectShouldBeLessThanOrEqual(r, e, n)
    \/ \E p \in Payloads, d \in DirNames, f \in FileNames, g \in BOOLEAN, n \in BOOLEAN :
          ExpectShouldMatchSchema(p, d, f, g, n)

SuiteSpec == SuiteInit /\ [][SuiteNext]_vars

(* ------------------------------------------ a schema directory of two files *)

(* In SchemaSpec the tests of one worker validate payloads against two      *)
(* schema files of one directory, each of which may hold anything at the    *)
(* start.                                                                   *)

OtherFileNames == {"POST_articles"}

AllSchemaPaths == {SchemaPath(d, f) : d \in DirNames, f \in FileNames \cup OtherFileNames}

SchemaInit ==
    /\ BuilderInit
    /\ tasks = <<>>
    /\ loggers = <<>>
    /\ apiLogger = NoLogger
    /\ running = NoTest
    /\ verdict = NoVerdict
    /\ recorded = <<>>
    /\ schemas \in [AllSchemaPaths -> FileContents]
    /\ WorkerIdle

SchemaNext ==
    \/ api
    \/ \E p \in Payloads, d \in DirNames, f \in FileNames \cup OtherFileNames,
          g \in BOOLEAN, n \in BOOLEAN :
          ExpectShouldMatchSchema(p, d, f, g, n)

SchemaSpec == SchemaInit /\ [][SchemaNext]_vars

(* -------------------------------------------------- loggers side by side *)

(* In LoggerSpec one test body, which asks for no fixture, makes loggers    *)
(* and calls logRequest and logResponse on them in any order, as the test   *)
(* 'logger' does.                                                           *)
LoggerInit ==
    /\ BuilderInit
    /\ tasks = <<>>
    /\ loggers = <<>>
    /\ apiLogger = NoLogger
    /\ running = [n |-> 1, own |-> {}]
    /\ verdict = NoVerdict
    /\ recorded = <<>>
    /\ schemas = [p \in SchemaPaths |-> NoFile]
    /\ WorkerIdle

LoggerNext ==
    \/ NewAPILogger
    \/ \E i \in 1..Len(loggers), m \in {"GET", "POST"} : LoggerLogRequest(i, m)
    \/ \E i \in 1..Len(loggers), c \in StatusCodes : LoggerLogResponse(i, c)

LoggerSpec == LoggerInit /\ [][LoggerNext]_vars

(* ------------------------------------- createToken and the authToken fixture *)

(* In AuthSpec one worker runs its tests one after the other.  The first    *)
(* test that asks for the api fixture makes the worker set up the authToken *)
(* fixture, which calls createToken; createToken makes a request context    *)
(* and a builder of its own and logs in with it.  Every test that asks for  *)
(* the api fixture gets a new builder made with the fixture's value.  The   *)
(* builder variables describe the builder made last.                        *)

LoginPath == "/users/login"

(* { "user": { "email": email, "password": password } } *)
Credentials == "user-credentials"

LoginTexts == {LoginJson, NoTokenJson, ErrorsJson, ""}

(* 'Token ' + value: undefined is written "undefined" *)
Concat(s, v) == s \o (IF v = Undefined THEN "undefined" ELSE v)

(* new RequestHandler(request, config.apiUrl, logger, authToken) with a new *)
(* APILogger                                                                *)
NewRequestHandler(token) ==
    /\ defaultBaseUrl' = ApiUrl
    /\ defaultAuthToken' = token
    /\ baseUrl' = Undefined
    /\ apiPath' = ""
    /\ queryParams' = <<>>
    /\ hdrHeap' = <<EmptyObject, CallerHeaderInit>>
    /\ apiHeaders' = 1
    /\ bodyHeap' = <<"{}", CallerBodyInit>>
    /\ apiBody' = 1
    /\ clearAuthFlag' = Undefined
    /\ recentLogs' = <<>>
    /\ pc' = "configuring"
    /\ inflight' = Idle
    /\ result' = NoResult
    /\ httpCalls' = <<>>
    /\ history' = <<>>
    /\ calls' = 0

(* createToken up to its chain of builder calls: request.newContext(), new  *)
(* APILogger(), new RequestHandler(context, config.apiUrl, logger)          *)
createToken ==
    /\ createTokenCall.at = "idle"
    /\ running.n < MaxTests
    /\ context' = [created |-> TRUE, disposeCalls |-> 0]
    /\ createTokenCall' = [at |-> "postRequest"]
    /\ NewRequestHandler("")
    /\ UNCHANGED <<authToken, tasks, suiteVars>>

(* the builder variables describe the builder createToken made *)
LoginBuilder == createTokenCall.at = "postRequest"

(* the builder variables describe the builder of the running test *)
TestBuilder == createTokenCall.at = "done" /\ running.own # {}

(* return 'Token ' + tokenResponse.user.token *)
TokenOf(tokenResponse) ==
    IF "user" \notin DOMAIN tokenResponse
    THEN [kind |-> "threw", error |-> [kind |-> "TypeError"]]
    ELSE [kind |-> "returned",
          value |-> Concat("Token ", Prop(tokenResponse.user, "token"))]

(* what the try block of createToken ends with, given how postRequest ended *)
TryOutcome(postResult) ==
    IF postResult.kind = "returned" THEN TokenOf(postResult.value)
    ELSE [kind |-> "threw", error |-> postResult]

(* variant of the step below: the context is disposed only when the try     *)
(* block returns                                                            *)
createTokenSettlesDisposesOnReturn ==
    /\ LoginBuilder
    /\ pc = "configuring"
    /\ history # <<>>
    /\ createTokenCall' = [at |-> "dispose", outcome |-> TryOutcome(result)]
    /\ context' = IF TryOutcome(result).kind = "returned"
                  THEN [context EXCEPT !.disposeCalls = @ + 1]
                  ELSE context
    /\ UNCHANGED <<authToken, tasks, suiteVars, builderVars>>

(* postRequest has returned or thrown: the try block ends, the catch block  *)
(* rethrows, and the finally block calls context.dispose()                  *)
createTokenSettles ==
    /\ LoginBuilder
    /\ pc = "configuring"
    /\ history # <<>>
    /\ createTokenCall' = [at |-> "dispose", outcome |-> TryOutcome(result)]
    /\ context' = [context EXCEPT !.disposeCalls = @ + 1]
    /\ UNCHANGED <<authToken, tasks, suiteVars, builderVars>>

(* variant of the step below: a failed login leaves the empty token *)
authTokenFixtureDefaultsToken ==
    /\ createTokenCall.at = "dispose"
    /\ createTokenCall' = [createTokenCall EXCEPT !.at = "done"]
    /\ authToken' = IF createTokenCall.outcome.kind = "returned"
                    THEN createTokenCall.outcome.value
                    ELSE ""
    /\ UNCHANGED <<context, tasks, suiteVars, builderVars>>

(* context.dispose() has resolved: createToken returns or throws; the       *)
(* authToken fixture passes a returned value to use()                       *)
authTokenFixture ==
    /\ createTokenCall.at = "dispose"
    /\ createTokenCall' = [createTokenCall EXCEPT !.at = "done"]
    /\ authToken' = IF createTokenCall.outcome.kind = "returned"
                    THEN createTokenCall.outcome.value
                    ELSE authToken
    /\ UNCHANGED <<context, tasks, suiteVars, builderVars>>

(* a test that asks for the api fixture starts: the fixture makes a logger, *)
(* hands it to the custom matchers and makes the builder with authToken     *)
apiWithAuthToken ==
    /\ createTokenCall.at = "done"
    /\ authToken # Undefined
    /\ running.n < MaxTests
    /\ Len(loggers) < MaxLoggers
    /\ loggers' = Append(loggers, <<>>)
    /\ apiLogger' = setCustomExpectLogger(Len(loggers) + 1)
    /\ running' = [n |-> running.n + 1, own |-> {Len(loggers) + 1}]
    /\ verdict' = NoVerdict
    /\ NewRequestHandler(authToken)
    /\ UNCHANGED <<recorded, schemas, tasks, workerVars>>

(* the worker goes on to its next test unless its fixture has failed *)
WorkerAlive ==
    \/ createTokenCall.at = "idle"
    \/ createTokenCall.at = "done" /\ authToken # Undefined

AuthNext ==
    \/ createToken
    \/ LoginBuilder /\ calls = 0 /\ path(LoginPath)
    \/ LoginBuilder /\ calls = 1 /\ body(Credentials)
    \/ LoginBuilder /\ calls = 2 /\ postRequest(200)
    \/ LoginBuilder /\ \E c \in StatusCodes, t \in LoginTexts : postRequestResumes(c, t)
    \/ (LoginBuilder \/ TestBuilder) /\ RequestRejects
    \/ createTokenSettles
    \/ authTokenFixture
    \/ WorkerAlive /\ TestWithoutApi
    \/ apiWithAuthToken
    \/ TestBuilder /\ clearAuth
    \/ TestBuilder /\ \E h \in HeaderLiterals : headers(h)
    \/ TestBuilder /\ \E c \in StatusCodes : getRequest(c)
    \/ TestBuilder /\ \E c \in StatusCodes : getRequestResumes(c, JsonText)

AuthSpec == Init /\ [][AuthNext]_vars

(* ----------------------------------------------------------- vocabulary *)

(* every field that cleanupFields resets holds its empty default *)
DescriptorIsEmpty ==
    /\ apiPath = ""
    /\ queryParams = <<>>
    /\ hdrHeap[apiHeaders] = EmptyObject
    /\ bodyHeap[apiBody] = "{}"
    /\ baseUrl = Undefined
    /\ Not(clearAuthFlag)

(* the dispatch just made has ended and the HTTP client gave it a response *)
GotResponse == inflight.method \in Methods /\ inflight.settled = "response"

(* the dispatch just made ended before any response was obtained *)
FailedEarly ==
    inflight.method \in Methods /\ inflight.settled \in {"getUrl threw", "rejected"}

(* the payload of the response just received could be read by the method *)
PayloadReadable == inflight.method = "GET" => ParseJson(inflight.text).ok

Dump == getRecentLogs(recentLogs, hdrHeap, bodyHeap)

(* ------------------------------------------------------------------- C1 *)

(* C1: after a dispatch that received a response has returned or thrown its *)
(* status-mismatch error, path, params, headers, body, URL override and     *)
(* suppress-auth flag are all at their empty defaults                       *)
C1_ResetAfterResponse ==
    (GotResponse /\ result.kind \in {"returned", "statusMismatch"}) => DescriptorIsEmpty

C1_Witness ==
    /\ GotResponse
    /\ result.kind = "statusMismatch"
    /\ Last(httpCalls).url = ApiUrl \o "/articles"
    /\ "Custom" \in DOMAIN Last(httpCalls).headers
    /\ DescriptorIsEmpty

(* ------------------------------------------------------------------- C2 *)

(* C2: a dispatch that fails before a response is obtained (transport error *)
(* or rejected URL) leaves the builder configuring with every descriptor    *)
(* field at its empty default                                               *)
C2_ResetAfterEarlyFailure ==
    FailedEarly => (pc = "configuring" /\ DescriptorIsEmpty)

(* ------------------------------------------------------------------- C3 *)

(* C3: with clearAuth() in force the headers given to the HTTP client and   *)
(* those recorded in the Request entry have no Authorization key, whatever  *)
(* headers map the caller supplied                                          *)
C3_ClearAuthOmitsAuthorization ==
    (pc = "dispatching" /\ clearAuthFlag = "true") =>
        /\ "Authorization" \notin DOMAIN Last(httpCalls).headers
        /\ "Authorization" \notin DOMAIN hdrHeap[Last(recentLogs).headers]

(* ------------------------------------------------------------------- C4 *)

(* C4: a dispatch made without clearAuth() and without a caller-supplied    *)
(* Authorization header sends, and logs, Authorization equal to the token   *)
(* given to the constructor                                                 *)
C4_DefaultTokenInjected ==
    [][ ( /\ pc = "configuring" /\ pc' = "dispatching"
          /\ Not(clearAuthFlag)
          /\ "Authorization" \notin DOMAIN hdrHeap[apiHeaders] )
        => ( /\ Prop(Last(httpCalls').headers, "Authorization") = defaultAuthToken
             /\ Prop(hdrHeap'[Last(recentLogs').headers], "Authorization") = defaultAuthToken )
      ]_vars

(* a second dispatch, after a reset, whose only header is the injected one *)
C4_Witness ==
    /\ pc = "dispatching"
    /\ Len(history) >= 1
    /\ history[1].stage = "validated"
    /\ Last(httpCalls).headers = [Authorization |-> defaultAuthToken]

(* ------------------------------------------------------------------- C5 *)

(* C5: a dispatch made without clearAuth() whose headers map carries an     *)
(* Authorization entry sends exactly that value, the empty string included  *)
C5_CustomAuthorizationWins ==
    [][ ( /\ pc = "configuring" /\ pc' = "dispatching"
          /\ Not(clearAuthFlag)
          /\ "Authorization" \in DOMAIN hdrHeap[apiHeaders] )
        => Prop(Last(httpCalls').headers, "Authorization") = hdrHeap[apiHeaders].Authorization
      ]_vars

(* ------------------------------------------------------------------- C6 *)

MismatchReported ==
    /\ result.kind = "statusMismatch"
    /\ result.message.expected = inflight.expected
    /\ result.message.actual = inflight.status
    /\ result.message.activity = Dump
    /\ Len(Dump) >= 2
    /\ Dump[Len(Dump) - 1].title = "===Request Details==="
    /\ Dump[Len(Dump) - 1].json.method = inflight.method
    /\ Dump[Len(Dump) - 1].json.url = Last(httpCalls).url
    /\ Last(Dump).title = "===Response Details==="
    /\ Last(Dump).json.statusCode = inflight.status

(* C6 as stated: for every method, a response whose status differs from the *)
(* expected one makes the dispatch throw the status-mismatch error, whose   *)
(* message has both numbers and the full dump with this call's two entries  *)
C6_MismatchAlwaysReported ==
    (GotResponse /\ inflight.status # inflight.expected) => MismatchReported

(* C6 amended: the same, for postRequest, putRequest and deleteRequest in   *)
(* every case and for getRequest when the response body parses as JSON      *)
C6_MismatchReportedWhenReadable ==
    (GotResponse /\ inflight.status # inflight.expected /\ PayloadReadable)
        => MismatchReported

C6_Witness ==
    /\ GotResponse
    /\ inflight.method = "DELETE"
    /\ inflight.expected = 200
    /\ inflight.status = 422
    /\ MismatchReported
    /\ Len(recentLogs) = 4

(* ------------------------------------------------------------------- C7 *)

ReturnedNormally ==
    /\ result.kind = "returned"
    /\ IF inflight.method = "DELETE"
       THEN "value" \notin DOMAIN result
       ELSE /\ "value" \in DOMAIN result
            /\ result.value = IF ParseJson(inflight.text).ok
                              THEN ParseJson(inflight.text).value
                              ELSE EmptyObject

(* C7 as stated: for every method and status, a response whose status is    *)
(* the expected one makes the dispatch return normally, whatever its body   *)
C7_MatchAlwaysReturns ==
    (GotResponse /\ inflight.status = inflight.expected) => ReturnedNormally

(* C7 amended: the same, for postRequest, putRequest and deleteRequest      *)
(* whatever the body and for getRequest when the body parses as JSON        *)
C7_MatchReturnsWhenReadable ==
    (GotResponse /\ inflight.status = inflight.expected /\ PayloadReadable)
        => ReturnedNormally

C7_Witness ==
    /\ GotResponse
    /\ inflight.method = "POST"
    /\ inflight.expected = 422
    /\ inflight.status = 422
    /\ inflight.text = ""
    /\ ReturnedNormally

(* ------------------------------------------------------------------- C8 *)

PairedLog(n) ==
    /\ Len(recentLogs) = 2 * n
    /\ Len(Dump) = 2 * n
    /\ \A i \in 1..n :
          /\ recentLogs[2 * i - 1].type = "Request Details"
          /\ recentLogs[2 * i - 1].method = history[i].method
          /\ recentLogs[2 * i - 1].url = httpCalls[i].url
          /\ Dump[2 * i - 1].title = "===Request Details==="
          /\ recentLogs[2 * i].type = "Response Details"
          /\ recentLogs[2 * i].statusCode = history[i].status
          /\ Dump[2 * i].title = "===Response Details==="

C9_EntriesNeverChange ==
    [][ /\ Len(recentLogs') >= Len(recentLogs)
        /\ \A i \in 1..Len(recentLogs) :
              getRecentLogs(recentLogs', hdrHeap', bodyHeap')[i] = Dump[i]
      ]_vars

(* ------------------------------------------------------------------ C10 *)

(* C10: when the response body does not parse, postRequest and putRequest   *)
(* log {} as the response body and validate the status as usual, getRequest *)
(* throws the parse error, and deleteRequest never calls response.json()    *)
C10_ParseFailureHandling ==
    GotResponse =>
        /\ (inflight.method \in {"POST", "PUT"} /\ ~ParseJson(inflight.text).ok) =>
              /\ Last(recentLogs) = ResponseDetails(inflight.status, TRUE, EmptyObject)
              /\ Last(Dump).json = [statusCode |-> inflight.status, body |-> EmptyObject]
              /\ result.jsonCalls = 1
              /\ IF inflight.status = inflight.expected
                 THEN result.kind = "returned" /\ result.value = EmptyObject
                 ELSE result.kind = "statusMismatch"
        /\ (inflight.method = "GET" /\ ~ParseJson(inflight.text).ok) =>
              /\ result.kind = "parseError"
              /\ Last(recentLogs).type = "Request Details"
        /\ inflight.method = "DELETE" =>
              /\ result.jsonCalls = 0
              /\ result.kind \in {"returned", "statusMismatch"}
              /\ "body" \notin DOMAIN Last(recentLogs)

C10_Witness ==
    /\ GotResponse
    /\ inflight.method = "PUT"
    /\ inflight.text = ""
    /\ inflight.status # inflight.expected
    /\ result.kind = "statusMismatch"
    /\ Last(recentLogs) = ResponseDetails(inflight.status, TRUE, EmptyObject)

(* ------------------------------------------------------------------ C11 *)

(* the assertion just made, written with the baseline matcher instead *)
BaselineFails ==
    IF verdict.matcher = "shouldEqual"
    THEN toEqualThrows(verdict.about.received, verdict.about.expected, verdict.isNot)
    ELSE toBeLessThanOrEqualThrows(verdict.about.received, verdict.about.expected,
                                   verdict.isNot)

(* C11: for every received/expected pair, plain or negated, a shouldEqual   *)
(* or shouldBeLessThanOrEqual assertion (made once a fixture has given the  *)
(* matchers a logger) fails exactly when the same assertion written with    *)
(* toEqual / toBeLessThanOrEqual fails                                      *)
C11_SameVerdictAsBaseline ==
    (verdict.matcher \in {"shouldEqual", "shouldBeLessThanOrEqual"} /\ apiLogger # NoLogger)
        => (verdict.failed <=> BaselineFails)

(* ------------------------------------------------------------------ C12 *)

(* the failure message of the assertion just made contains what the logger  *)
(* of the matchers renders now                                              *)
MessageHasDump ==
    /\ "message" \in DOMAIN verdict.outcome
    /\ LET dump == getRecentLogs(loggers[apiLogger], hdrHeap, bodyHeap)
       IN \/ dump = <<>>
          \/ /\ "activity" \in DOMAIN verdict.outcome.message
             /\ verdict.outcome.message.activity = dump

(* C12: whenever an assertion made with one of the three matchers fails, as *)
(* a plain assertion whose check fails or as a negated one whose check      *)
(* passes, its message contains the logger's current dump                   *)
C12_FailureCarriesDump ==
    (verdict.matcher # "none" /\ verdict.failed /\ apiLogger # NoLogger)
        => MessageHasDump

(* ------------------------------------------------------------------ C13 *)

Names(message, schemaPath) ==
    \E i \in 1..Len(message) :
        /\ i + Len(schemaPath) - 1 <= Len(message)
        /\ SubSeq(message, i, i + Len(schemaPath) - 1) = schemaPath

(* C14: validateSchema with generate = false for a name that has no stored  *)
(* schema fails with a load error that names the missing path, validates    *)
(* nothing and creates no file                                              *)
C14_MissingSchemaIsLoadError ==
    ( /\ verdict.matcher = "shouldMatchSchema"
      /\ ~verdict.about.generate
      /\ ~verdict.about.before.exists ) =>
        /\ verdict.about.ended = "loadError"
        /\ Names(verdict.about.thrown, verdict.about.path)
        /\ ~verdict.about.validated
        /\ ~schemas[verdict.about.path].exists

C14_Witness ==
    /\ verdict.matcher = "shouldMatchSchema"
    /\ ~verdict.about.generate
    /\ ~verdict.about.before.exists
    /\ verdict.about.ended = "loadError"
    /\ verdict.about.received # EmptyObject
    /\ verdict.failed
    /\ ~schemas[verdict.about.path].exists

(* ------------------------------------------------------------------ C15 *)

(* C15: tests share no logger: the activity a test's assertion message      *)
(* shows was recorded by a logger that test made                            *)
C15_MessagesShowOwnActivity ==
    ( /\ verdict.matcher # "none"
      /\ "message" \in DOMAIN verdict.outcome
      /\ "activity" \in DOMAIN verdict.outcome.message
      /\ verdict.outcome.message.activity # <<>> )
        => apiLogger \in running.own

(* ------------------------------------------------------------------ C16 *)

RECURSIVE EntriesOn(_, _)
(* the entries of the logRequest / logResponse calls made on one instance *)
EntriesOn(calls_, logger) ==
    IF calls_ = <<>> THEN <<>>
    ELSE LET before == EntriesOn(SubSeq(calls_, 1, Len(calls_) - 1), logger)
         IN IF Last(calls_).on = logger THEN Append(before, Last(calls_).entry)
            ELSE before

(* C16: whatever the order of the calls on the instances, getRecentLogs()   *)
(* of each instance renders exactly the entries recorded on it, in the      *)
(* order they were recorded                                                 *)
C16_LoggersIndependent ==
    \A i \in 1..Len(loggers) :
        LET mine == EntriesOn(recorded, i)
            dump == getRecentLogs(loggers[i], hdrHeap, bodyHeap)
        IN /\ Len(dump) = Len(mine)
           /\ \A k \in 1..Len(mine) :
                 /\ dump[k].title = "===" \o mine[k].type \o "==="
                 /\ dump[k].json = Stringify(mine[k], hdrHeap, bodyHeap)

C16_Witness ==
    /\ Len(loggers) = 2
    /\ Len(recorded) = 3
    /\ recorded[1].on = 1 /\ recorded[2].on = 2 /\ recorded[3].on = 1
    /\ recorded[1].entry.type = "Request Details"
    /\ recorded[2].entry.type = "Request Details"
    /\ recorded[1].entry.method # recorded[2].entry.method
    /\ recorded[3].entry.type = "Response Details"
    /\ Len(getRecentLogs(loggers[1], hdrHeap, bodyHeap)) = 2
    /\ Len(getRecentLogs(loggers[2], hdrHeap, bodyHeap)) = 1

(* ------------------------------------------------------------------ C17 *)

(* C17: clearAuth() holds for one dispatch.  A dispatch that gets a         *)
(* response leaves the suppress-auth flag off, whatever it was; only a call *)
(* of clearAuth() turns it on; so the dispatch that follows a suppressed    *)
(* one that got its response, with no clearAuth() call in between, sends    *)
(* and logs an Authorization header                                         *)
C17_SuppressionLastsOneDispatch ==
    [][ /\ (pc = "dispatching" /\ pc' = "configuring" /\ inflight'.settled = "response")
              => clearAuthFlag' = "false"
        /\ (clearAuthFlag' = "true" /\ clearAuthFlag # "true")
              => ( /\ pc = "configuring" /\ pc' = "configuring"
                   /\ result' = ReturnsThis
                   /\ calls' = calls + 1
                   /\ recentLogs' = recentLogs /\ httpCalls' = httpCalls )
        /\ ( /\ pc = "configuring" /\ pc' = "dispatching"
             /\ Len(history) >= 1
             /\ Last(history).stage \in {"validated", "json"}
             /\ "Authorization" \notin DOMAIN Last(httpCalls).headers
             /\ clearAuthFlag # "true" )
              => ( /\ Truthy(Prop(Last(httpCalls').headers, "Authorization"))
                   /\ Prop(hdrHeap'[Last(recentLogs').headers], "Authorization")
                         = Last(httpCalls').headers.Authorization )
      ]_vars

(* clearAuth(), a dispatch that got its response, and the next dispatch *)
C17_Witness ==
    /\ pc = "dispatching"
    /\ calls = 3
    /\ Len(httpCalls) = 2
    /\ "Authorization" \notin DOMAIN httpCalls[1].headers
    /\ Len(history) = 1
    /\ history[1].stage = "validated"
    /\ history[1].status = 422
    /\ httpCalls[2].headers = [Authorization |-> defaultAuthToken]
    /\ hdrHeap[Last(recentLogs).headers] = [Authorization |-> defaultAuthToken]

(* ------------------------------------------------------------------ C18 *)

(* C18: no dispatch changes the headers object the caller passed to         *)
(* headers(): the object keeps exactly the keys and values it was given     *)
C18_CallerHeadersUntouched ==
    hdrHeap[CallerHeaders] = CallerHeaderInit

(* ------------------------------------------------------------------ C19 *)

(* some request method resumes from its HTTP call in this step *)
SomeTaskResponds ==
    \E i \in 1..Len(tasks) :
        /\ tasks[i].stage = "request"
        /\ Len(tasks') = Len(tasks)
        /\ tasks'[i].stage \in {"json", "ended"}

(* C19: dispatches that overlap are not isolated.  When the test body has   *)
(* configured a later call (its last call was a setter) and an earlier      *)
(* dispatch resumes from its network call, that dispatch's reset wipes the  *)
(* later call's configuration; and each log entry goes to the end of the    *)
(* one log, in the order the steps happen                                   *)
C19_EarlierResetWipesLaterCall ==
    [][ /\ (SomeTaskResponds /\ result = ReturnsThis /\ ~DescriptorIsEmpty)
              => (DescriptorIsEmpty' /\ result' = ReturnsThis)
        /\ Len(recentLogs') >= Len(recentLogs)
        /\ SubSeq(recentLogs', 1, Len(recentLogs)) = recentLogs
      ]_vars

(* the first postRequest was called on the builder as constructed (its     *)
(* headers and body are the constructor's objects), the only setter call    *)
(* came before the second postRequest, yet both requests went out with the  *)
(* empty descriptor, and the two Request entries precede the two Response   *)
(* entries                                                                  *)
C19_Witness ==
    /\ calls = 3
    /\ Len(tasks) = 2
    /\ \A i \in 1..2 : tasks[i].method = "POST" /\ tasks[i].stage = "ended"
    /\ result = Pending
    /\ Len(httpCalls) = 2
    /\ \A i \in 1..2 :
          httpCalls[i] = [method |-> "POST", url |-> ApiUrl,
                          headers |-> [Authorization |-> defaultAuthToken], data |-> "{}"]
    /\ Len(recentLogs) = 4
    /\ recentLogs[1].headers = 1
    /\ recentLogs[1].body = 1
    /\ recentLogs[1].type = "Request Details"
    /\ recentLogs[2].type = "Request Details"
    /\ recentLogs[3].type = "Response Details"
    /\ recentLogs[4].type = "Response Details"

(* ------------------------------------------------------------------ C20 *)

(* C20: while the HTTP call of a dispatch is pending, and after it has      *)
(* failed, the last log entry is that dispatch's Request entry: its method, *)
(* the URL and the headers given to the HTTP client and, for POST and PUT,  *)
(* the body; every call of the HTTP client has its Request entry            *)
C20_RequestLoggedBeforeCall ==
    (inflight.method \in Methods /\ inflight.settled \in {"no", "rejected"}) =>
        /\ recentLogs # <<>>
        /\ httpCalls # <<>>
        /\ LET entry == Last(recentLogs)
               call == Last(httpCalls)
           IN /\ entry.type = "Request Details"
              /\ entry.method = inflight.method
              /\ call.method = inflight.method
              /\ entry.url = call.url
              /\ hdrHeap[entry.headers] = call.headers
              /\ IF inflight.method \in {"POST", "PUT"}
                 THEN "body" \in DOMAIN entry /\ bodyHeap[entry.body] = call.data
                 ELSE "body" \notin DOMAIN entry /\ "data" \notin DOMAIN call
        /\ Len(httpCalls) = Cardinality({i \in 1..Len(recentLogs) :
                                            recentLogs[i].type = "Request Details"})

(* a POST whose HTTP call failed, after an earlier dispatch that completed *)
C20_Witness ==
    /\ inflight.method = "POST"
    /\ inflight.settled = "rejected"
    /\ result.kind = "transportError"
    /\ Len(recentLogs) = 3
    /\ recentLogs[2].type = "Response Details"
    /\ Last(recentLogs).type = "Request Details"
    /\ Last(recentLogs).method = "POST"
    /\ bodyHeap[Last(recentLogs).body] = "user-d"
    /\ Last(httpCalls).data = "user-d"

(* ------------------------------------------------------------------ C21 *)

(* the fields of the builder that the setters write *)
descriptor == <<baseUrl, apiPath, queryParams, apiHeaders, apiBody, clearAuthFlag>>

(* request method i resumes from its HTTP call in this step and reaches stage s *)
Resumes(i, from, to) ==
    /\ Len(tasks') = Len(tasks)
    /\ tasks[i].stage = from
    /\ tasks'[i].stage = to

(* the error thrown by request method i, if any, was built after the log    *)
(* had the Response entry                                                   *)
ValidatedLast(i) ==
    tasks'[i].outcome.kind = "statusMismatch" =>
        /\ tasks'[i].outcome.message.activity
              = getRecentLogs(recentLogs', hdrHeap', bodyHeap')
        /\ Last(tasks'[i].outcome.message.activity).title = "===Response Details==="

(* C21 as stated: the descriptor is never reset before the Response entry   *)
(* of the dispatch has been recorded: the step of a dispatch that resets    *)
(* the descriptor leaves that dispatch's Response entry at the end of the   *)
(* log                                                                      *)
C21_ResponseEntryBeforeReset ==
    [][ \A i \in 1..Len(tasks) :
           (Resumes(i, "request", "json") \/ Resumes(i, "request", "ended")) =>
              /\ Len(recentLogs') = Len(recentLogs) + 1
              /\ Last(recentLogs').type = "Response Details"
      ]_vars

(* C21 amended: within one dispatch the steps occur in the order: record    *)
(* Request entry and invoke HTTP client, reset the descriptor when the      *)
(* client answers, parse the payload, record Response entry, validate       *)
(* status; the Response entry is never recorded before the reset, and       *)
(* nothing after the reset writes the descriptor                            *)
C21_ResetBeforeResponseEntry ==
    [][ /\ (Len(tasks') = Len(tasks) + 1 /\ Last(tasks').stage = "request") =>
              /\ Len(recentLogs') = Len(recentLogs) + 1
              /\ Last(recentLogs').type = "Request Details"
              /\ Last(recentLogs').method = Last(tasks').method
              /\ Len(httpCalls') = Len(httpCalls) + 1
              /\ Last(httpCalls').method = Last(tasks').method
              /\ descriptor' = descriptor
        /\ \A i \in 1..Len(tasks) :
              /\ Resumes(i, "request", "json") =>
                    /\ DescriptorIsEmpty'
                    /\ recentLogs' = recentLogs
                    /\ httpCalls' = httpCalls
              /\ Resumes(i, "request", "ended") =>
                    /\ tasks[i].method = "DELETE"
                    /\ DescriptorIsEmpty'
                    /\ recentLogs' = Append(recentLogs,
                                            ResponseDetails(tasks'[i].status, FALSE, EmptyObject))
                    /\ httpCalls' = httpCalls
                    /\ ValidatedLast(i)
              /\ Resumes(i, "json", "ended") =>
                    /\ descriptor' = descriptor
                    /\ hdrHeap' = hdrHeap
                    /\ bodyHeap' = bodyHeap
                    /\ httpCalls' = httpCalls
                    /\ tasks'[i].outcome.kind # "parseError" =>
                          /\ Len(recentLogs') = Len(recentLogs) + 1
                          /\ Last(recentLogs').type = "Response Details"
                          /\ Last(recentLogs').statusCode = tasks[i].status
                    /\ ValidatedLast(i)
      ]_vars

(* a postRequest configured with a path whose response had the wrong status *)
C21_Witness ==
    /\ Len(tasks) = 1
    /\ tasks[1].method = "POST"
    /\ tasks[1].stage = "ended"
    /\ tasks[1].outcome.kind = "statusMismatch"
    /\ Len(tasks[1].outcome.message.activity) = 2
    /\ httpCalls[1].url = ApiUrl \o "/articles"
    /\ Len(recentLogs) = 2
    /\ DescriptorIsEmpty

(* ------------------------------------------------------------------ C22 *)

MethodsOf(seq) == [i \in 1..Len(seq) |-> seq[i].method]

(* the methods of the dispatches made so far, the one in progress included *)
Dispatched ==
    MethodsOf(history) \o (IF pc = "dispatching" THEN <<inflight.method>> ELSE <<>>)

UrlAccepted(dispatch) == dispatch.stage # "getUrl"

(* the same, leaving out the dispatches whose URL was rejected *)
DispatchedWithUrl ==
    MethodsOf(SelectSeq(history, UrlAccepted))
        \o (IF pc = "dispatching" THEN <<inflight.method>> ELSE <<>>)

(* C22 as stated: every dispatch invokes the HTTP client exactly once, for  *)
(* the method that was called, whatever its outcome                         *)
C22_OneCallPerDispatch ==
    MethodsOf(httpCalls) = Dispatched

(* C22 amended: every dispatch whose URL is accepted invokes the HTTP       *)
(* client exactly once, for the method that was called, whether it ends in  *)
(* a return, a status mismatch, a parse failure or a transport error; a     *)
(* dispatch whose URL is rejected does not invoke it                        *)
C22_OneCallPerAcceptedDispatch ==
    MethodsOf(httpCalls) = DispatchedWithUrl

(* a parse failure, a status mismatch and a transport error, one call each *)
C22_Witness ==
    /\ pc = "configuring"
    /\ Len(history) = 3
    /\ history[1].method = "GET" /\ history[1].stage = "json"
    /\ history[2].stage = "validated" /\ result.kind = "transportError"
    /\ history[2].status = 422
    /\ history[3].stage = "request"
    /\ MethodsOf(httpCalls) = MethodsOf(history)

(* ------------------------------------------------------------------ C23 *)

(* a request method is called in this step and its URL is accepted *)
Dispatches == pc = "configuring" /\ pc' = "dispatching"

(* a dispatch ends in this step, with or without a response *)
DispatchEnds == Len(history') = Len(history) + 1

(* C23: the URL a dispatch requests is the url() override if one is set,    *)
(* otherwise the constructor's base URL, followed by the path and by every  *)
(* query parameter in the insertion order of the params map; the override   *)
(* is gone once the dispatch has ended; the constructor's base URL and auth *)
(* token never change                                                       *)
C23_UrlFromOverrideOrDefault ==
    [][ /\ Dispatches =>
              Last(httpCalls').url
                 = UrlToString((IF baseUrl # Undefined THEN baseUrl ELSE defaultBaseUrl)
                                   \o apiPath,
                               SearchString(queryParams))
        /\ DispatchEnds => baseUrl' = Undefined
        /\ defaultBaseUrl' = defaultBaseUrl
        /\ defaultAuthToken' = defaultAuthToken
      ]_vars

(* ------------------------------------------------------------------ C24 *)

(* the call made in this step is a setter: it returned the builder *)
SetterReturns == calls' = calls + 1 /\ result' = ReturnsThis

(* how many of the six fields hold another value after the step *)
FieldsWritten ==
    Cardinality({i \in 1..Len(descriptor) : descriptor'[i] # descriptor[i]})

(* the objects that existed before the step are as they were *)
ObjectsKept ==
    /\ Len(hdrHeap') >= Len(hdrHeap)
    /\ SubSeq(hdrHeap', 1, Len(hdrHeap)) = hdrHeap
    /\ Len(bodyHeap') >= Len(bodyHeap)
    /\ SubSeq(bodyHeap', 1, Len(bodyHeap)) = bodyHeap

(* C24: a setter call writes at most one field of the builder (its own),    *)
(* leaves the objects the other fields refer to, the log and the defaults   *)
(* unchanged, makes no HTTP call, and returns the builder                   *)
C24_SettersWriteOwnFieldOnly ==
    [][ /\ SetterReturns =>
              /\ FieldsWritten <= 1
              /\ ObjectsKept
              /\ recentLogs' = recentLogs
              /\ httpCalls' = httpCalls
              /\ history' = history
              /\ defaultBaseUrl' = defaultBaseUrl
              /\ defaultAuthToken' = defaultAuthToken
              /\ pc' = pc
        /\ (pc = "configuring" /\ pc' = "configuring" /\ history' = history
              /\ descriptor' # descriptor) => SetterReturns
      ]_vars

(* three setters chained, each value still in place after the next call *)
C24_Witness ==
    /\ result = ReturnsThis
    /\ calls = 3
    /\ baseUrl = AltUrl
    /\ apiPath = "/articles"
    /\ hdrHeap[apiHeaders] = [Authorization |-> "Token custom"]
    /\ recentLogs = <<>>
    /\ httpCalls = <<>>

(* ------------------------------------------------------------------ C25 *)

(* C25: a setter call replaces the value set before: the field holds        *)
(* exactly the argument of the call, with nothing of the earlier value, and *)
(* the dispatch that follows sends the headers and the body the fields hold *)
(* then, with no more than the Authorization header added                   *)
C25_LastSetterCallWins ==
    [][ /\ SetterReturns =>
              /\ apiHeaders' # apiHeaders =>
                    hdrHeap'[apiHeaders'] \in HeaderLiterals \cup {hdrHeap[CallerHeaders]}
              /\ apiBody' # apiBody =>
                    bodyHeap'[apiBody'] \in BodyLiterals \cup {bodyHeap[CallerBody]}
              /\ queryParams' # queryParams => queryParams' \in ParamMaps
              /\ baseUrl' # baseUrl => baseUrl' \in UrlOverrides
              /\ apiPath' # apiPath => apiPath' \in Paths
        /\ Dispatches =>
              LET sent == Last(httpCalls')
                  held == hdrHeap[apiHeaders]
              IN /\ DOMAIN sent.headers \subseteq (DOMAIN held) \cup {"Authorization"}
                 /\ \A k \in (DOMAIN held) \ {"Authorization"} : sent.headers[k] = held[k]
                 /\ "data" \in DOMAIN sent => sent.data = bodyHeap[apiBody]
      ]_vars

(* headers(obj) with the key Custom, then headers({Authorization: ...}),    *)
(* then postRequest: the key Custom is not sent                             *)
C25_Witness ==
    /\ pc = "dispatching"
    /\ calls = 3
    /\ history = <<>>
    /\ Len(httpCalls) = 1
    /\ Len(hdrHeap) = 3
    /\ apiHeaders = 3
    /\ hdrHeap[CallerHeaders] = CallerHeaderInit
    /\ bodyHeap[CallerBody] = CallerBodyInit
    /\ apiBody = 1
    /\ apiPath = ""
    /\ baseUrl = Undefined
    /\ queryParams = <<>>
    /\ clearAuthFlag = Undefined
    /\ Last(httpCalls).method = "POST"
    /\ Last(httpCalls).headers = [Authorization |-> "Token custom"]

(* ------------------------------------------------------------------ C26 *)

(* the dispatch that ends in this step was made with one of these methods *)
EndsWith(methods) == DispatchEnds /\ Last(history').method \in methods

(* C26: postRequest and putRequest send the body and record it in the       *)
(* Request entry, getRequest and deleteRequest do neither; when a           *)
(* getRequest or deleteRequest has ended the body is cleared; a             *)
(* deleteRequest that gets its response records a Response entry with the   *)
(* status only and, when it returns, returns no value                       *)
C26_BodyOnlyForPostAndPut ==
    [][ /\ Dispatches =>
              LET sent == Last(httpCalls')
                  entry == Last(recentLogs')
              IN IF inflight'.method \in {"POST", "PUT"}
                 THEN /\ "data" \in DOMAIN sent /\ sent.data = bodyHeap[apiBody]
                      /\ "body" \in DOMAIN entry /\ entry.body = apiBody
                 ELSE "data" \notin DOMAIN sent /\ "body" \notin DOMAIN entry
        /\ EndsWith({"GET", "DELETE"}) => bodyHeap'[apiBody'] = "{}"
        /\ (EndsWith({"DELETE"}) /\ inflight'.settled = "response") =>
              /\ Last(recentLogs') = [type |-> "Response Details",
                                      statusCode |-> inflight'.status]
              /\ result'.kind \in {"returned", "statusMismatch"}
              /\ "value" \notin DOMAIN result'
      ]_vars

(* ------------------------------------------------------------------ C27 *)

TryEnds == createTokenCall.at = "postRequest" /\ createTokenCall'.at = "dispose"

(* the login call got a response, with this status *)
LoginAnswered == Last(history).stage = "validated"

(* C28: createToken returns only when the login call got status 200, and    *)
(* then 'Token ' followed by the token of the response; for any other       *)
(* status it throws the status-mismatch error of postRequest(200); the      *)
(* authToken fixture gets a value only from a createToken that returned,    *)
(* and no test with the api fixture starts without that value               *)
C28_TokenOnlyFromLoginWith200 ==
    [][ /\ TryEnds =>
              LET outcome == createTokenCall'.outcome
              IN /\ outcome.kind = "returned" =>
                       /\ LoginAnswered
                       /\ Last(history).status = 200
                       /\ ParseJson(inflight.text).ok
                       /\ outcome.value
                             = Concat("Token ",
                                      Prop(ParseJson(inflight.text).value.user, "token"))
                 /\ (LoginAnswered /\ Last(history).status # 200) =>
                       /\ outcome.kind = "threw"
                       /\ outcome.error.kind = "statusMismatch"
                       /\ outcome.error.message.expected = 200
                       /\ outcome.error.message.actual = Last(history).status
        /\ authToken' # authToken =>
              /\ createTokenCall.outcome.kind = "returned"
              /\ authToken' = createTokenCall.outcome.value
        /\ (running' # running /\ running'.own # {}) =>
              /\ createTokenCall.at = "done"
              /\ createTokenCall.outcome.kind = "returned"
              /\ authToken = createTokenCall.outcome.value
              /\ defaultAuthToken' = authToken
      ]_vars

(* the login was answered 422 with a body that has a token: createToken has *)
(* thrown the status-mismatch error and the worker has no token             *)
C28_Witness ==
    /\ createTokenCall.at = "done"
    /\ createTokenCall.outcome.kind = "threw"
    /\ createTokenCall.outcome.error.kind = "statusMismatch"
    /\ createTokenCall.outcome.error.message.actual = 422
    /\ inflight.text = LoginJson
    /\ authToken = Undefined
    /\ running.own = {}

(* ------------------------------------------------------------------ C29 *)

(* C29: when a test of the worker starts the one login call has completed   *)
(* and the token is set; createToken is called once; once set the token     *)
(* never changes; every dispatch of a test's builder made without           *)
(* clearAuth() and without an Authorization header of its own sends it      *)
C29_OneLoginBeforeAnyTest ==
    [][ /\ running' # running =>
              /\ createTokenCall.at = "done"
              /\ authToken # Undefined
        /\ createTokenCall.at # "idle" => createTokenCall'.at # "idle"
        /\ context.created => context'.created
        /\ authToken # Undefined => authToken' = authToken
        /\ ( /\ TestBuilder /\ Dispatches /\ Not(clearAuthFlag)
             /\ "Authorization" \notin DOMAIN hdrHeap[apiHeaders] ) =>
              Prop(Last(httpCalls').headers, "Authorization") = authToken
      ]_vars

(* ------------------------------------------------------------------ C30 *)

(* C30: createToken has called dispose() on the context it made exactly     *)
(* once when it returns or throws, and not before its try block has ended:  *)
(* after a login that succeeded, a status mismatch, a transport error, and  *)
(* a 200 response without a user token                                      *)
C30_ContextDisposedOnce ==
    /\ createTokenCall.at = "idle" => context = NoContext
    /\ createTokenCall.at = "postRequest" =>
          context = [created |-> TRUE, disposeCalls |-> 0]
    /\ createTokenCall.at \in {"dispose", "done"} =>
          context = [created |-> TRUE, disposeCalls |-> 1]

(* the login was answered 200 with a body that has no user: createToken has *)
(* thrown a TypeError, after disposing the context                          *)
C30_Witness ==
    /\ createTokenCall.at = "done"
    /\ createTokenCall.outcome.kind = "threw"
    /\ createTokenCall.outcome.error.kind = "TypeError"
    /\ inflight.status = 200
    /\ context.disposeCalls = 1

====
